---- MODULE Spec2Model ----
(***************************************************************************)
(* A model of rudder_dagster/resources/rudderstack.py: the retrying        *)
(* make_request primitive of BaseRudderStackResource and the               *)
(* start_sync / poll_sync / start_and_poll operations of                   *)
(* RudderStackRETLResource, for one start_and_poll invocation against a    *)
(* remote service whose answers are chosen nondeterministically.           *)
(***************************************************************************)
EXTENDS Naturals, Integers, Sequences, FiniteSets, TLC

(* ------------------------------ bounds --------------------------------- *)

\* request_max_retries is drawn from 0 .. MaxRetries.
MaxRetries == 3

\* The remote service reports at most MaxPolls non-terminal statuses.
MaxPolls == 2

\* request_max_retries is also drawn from -MaxNegativeRetries .. -1 where the
\* field's whole range matters.
MaxNegativeRetries == 2

\* No make_request call of the model makes more than AttemptCap attempts; a
\* call with a non-negative budget never needs that many.
AttemptCap == MaxRetries + 2

(* ------------------------- program constants --------------------------- *)

RUNNING == "running"

SUCCEEDED == "succeeded"

FAILED == "failed"

INCREMENTAL == "incremental"

FULL == "full"

DEFAULT_POLL_INTERVAL_SECONDS == 10

DEFAULT_REQUEST_MAX_RETRIES == 3

DEFAULT_RETRY_DELAY == 1

DEFAULT_REQUEST_TIMEOUT == 15

\* The default base URL, split into the part urljoin keeps (scheme and host)
\* and the path it replaces when the reference starts with "/".
DEFAULT_RUDDERSTACK_API_ENDPOINT == [origin |-> "https://api.rudderstack.com", path |-> ""]

(* --------------------------- Python values ----------------------------- *)

\* An optional value: None is the empty sequence, a present value v is <<v>>.
None == << >>

Some(v) == <<v>>

\* str(v) as an f-string renders it: None becomes the text "None".
PyStr(opt) == IF opt = None THEN "None" ELSE opt[1]

\* dict.get(key, None) on a parsed JSON object (a function from keys to values).
DictGet(d, key) == IF key \in DOMAIN d THEN Some(d[key]) ELSE None

\* d[key]: the value, or the KeyError Python raises when the key is absent.
Subscript(d, key) ==
    IF key \in DOMAIN d
    THEN [ok |-> TRUE, value |-> d[key]]
    ELSE [ok |-> FALSE, exc |-> [kind |-> "KeyError", key |-> key]]

(* ----------------------------- inputs ---------------------------------- *)

\* Connection ids the caller passes to start_and_poll.
ConnIds == {"conn-1", "conn-2"}

SyncTypes == {INCREMENTAL, FULL}

\* Values of the two polling settings.
PollIntervals == {DEFAULT_POLL_INTERVAL_SECONDS, 5}

\* Ways a single attempt raises requests.RequestException: a network error,
\* a timeout of the attempt, a 4xx/5xx status turned into HTTPError by
\* raise_for_status.
RequestExceptions == {"ConnectionError", "Timeout", "HTTPError"}

\* Parsed bodies of a successful answer to the start request.
StartBodies == {[syncId |-> "abc123"], [syncId |-> "xyz789"], [message |-> "accepted"]}

\* Parsed bodies of a successful answer to a status request.
StatusBodies ==
    { [status |-> RUNNING],
      [status |-> SUCCEEDED],
      [status |-> FAILED],
      [status |-> FAILED, error |-> "quota exceeded"],
      [status |-> "paused"],
      [message |-> "ok"] }

(* ------------------------------ state ---------------------------------- *)

VARIABLES
    request_max_retries,   \* configuration field
    request_retry_delay,   \* configuration field
    request_timeout,       \* configuration field
    poll_interval,         \* configuration field of the base class
    sync_poll_interval,    \* configuration field of the RETL resource
    pc,                    \* position of the start_and_poll invocation
    conn_id,               \* argument of start_and_poll
    sync_type,             \* argument of start_and_poll
    sync_id,               \* local of start_and_poll: None until start_sync returns
    mr,                    \* frame of the make_request call in progress
    request,               \* request_args of the attempt in flight
    sleep_secs,            \* argument of the time.sleep call in progress
    resp,                  \* local of poll_sync: the last parsed status body
    outcome,               \* how the invocation ended
    attempts,              \* attempts made by the make_request call in progress
    error_logs,            \* error log entries written by that call
    last_log,              \* the last log entry written
    polls,                 \* status bodies poll_sync has received
    poll_sleeps,           \* poll-interval waits poll_sync has started
    sent,                  \* the distinct requests issued so far
    calls,                 \* per caller, its make_request call once completed
    failed_attempts,       \* attempts of the call in progress that raised
    retry_sleeps,          \* retry-delay waits started by the call in progress
    first_request,         \* request_args of the first attempt of that call
    status_calls,          \* make_request calls made by poll_sync
    running_seen,          \* status bodies received whose status is 'running'
    inv,                   \* per concurrent invocation, the locals of its frames
    cells,                 \* the storage of the num_retries locals
    alone                  \* per invocation, the same invocation run by itself

config == <<request_max_retries, request_retry_delay, request_timeout,
            poll_interval, sync_poll_interval>>

\* The state of the single invocation followed step by step.
single == <<pc, conn_id, sync_type, sync_id, mr, request, sleep_secs, resp,
            outcome, attempts, error_logs, last_log, polls, poll_sleeps, sent,
            calls, failed_attempts, retry_sleeps, first_request, status_calls,
            running_seen>>

\* The state of the invocations that share the resource.
concurrent == <<inv, cells, alone>>

vars == <<request_max_retries, request_retry_delay, request_timeout,
          poll_interval, sync_poll_interval, pc, conn_id, sync_type, sync_id,
          mr, request, sleep_secs, resp, outcome, attempts, error_logs,
          last_log, polls, poll_sleeps, sent, calls, failed_attempts,
          retry_sleeps, first_request, status_calls, running_seen,
          inv, cells, alone>>

(* ------------------------- RudderStackRETLResource --------------------- *)

api_base_url == DEFAULT_RUDDERSTACK_API_ENDPOINT

request_headers ==
    [authorization |-> "Bearer " \o "token",
     ContentType   |-> "application/json",
     UserAgent     |-> "RudderDagster/" \o "UnknownVersion"]

\* urljoin(base, endpoint) for an endpoint that starts with "/": the
\* reference replaces the whole path of the base.
urljoin(base, endpoint) == base.origin \o endpoint

\* A status endpoint built with its two ids in each other's place.
status_endpoint_swapped(c, s) == "/v2/retl-connections/" \o s \o "/syncs/" \o c

start_endpoint(c) == "/v2/retl-connections/" \o c \o "/start"

status_endpoint(c, s) == "/v2/retl-connections/" \o c \o "/syncs/" \o s

(* --------------------------- make_request ------------------------------ *)

\* A retry test that never ends the loop.
RetriesExhaustedNever(num_retries) == FALSE

\* A make_request whose retry counter lives on the resource and is carried
\* from one call to the next.
make_request_carry(caller, endpoint, method, data) ==
    [caller      |-> caller,
     method      |-> method,
     data        |-> data,
     url         |-> urljoin(api_base_url, endpoint),
     headers     |-> request_headers,
     num_retries |-> IF mr = None THEN 0 ELSE mr[1].num_retries]

\* Entry of make_request: url, headers and num_retries = 0.
make_request(caller, endpoint, method, data) ==
    [caller      |-> caller,
     method      |-> method,
     data        |-> data,
     url         |-> urljoin(api_base_url, endpoint),
     headers     |-> request_headers,
     num_retries |-> 0]

\* Request arguments whose timeout grows with every retry.
request_args_backoff(f) ==
    IF f.data # None
    THEN [method |-> f.method, url |-> f.url, headers |-> f.headers,
          timeout |-> request_timeout + f.num_retries, json |-> f.data[1]]
    ELSE [method |-> f.method, url |-> f.url, headers |-> f.headers,
          timeout |-> request_timeout + f.num_retries]

\* request_args of one attempt; the json key is set only for truthy data.
request_args(f) ==
    IF f.data # None
    THEN [method |-> f.method, url |-> f.url, headers |-> f.headers,
          timeout |-> request_timeout, json |-> f.data[1]]
    ELSE [method |-> f.method, url |-> f.url, headers |-> f.headers,
          timeout |-> request_timeout]

\* A retry loop that gives up one failed attempt too early.
RetriesExhaustedEarly(num_retries) == num_retries + 1 >= request_max_retries

\* A retry loop that gives up one failed attempt too late.
RetriesExhaustedLate(num_retries) == num_retries > request_max_retries

\* The test that ends the retry loop after a failed attempt.
RetriesExhausted(num_retries) == num_retries = request_max_retries

\* An except clause that catches network errors and timeouts only.
CaughtNetworkOnly(e) == e \in {"ConnectionError", "Timeout"}

\* The exceptions the except clause of make_request catches: every
\* requests.RequestException.
Caught(e) == e \in RequestExceptions

\* A log call placed after the test that ends the loop.
LogsOnFailureNotLast(exhausted) == IF exhausted THEN 0 ELSE 1

\* Error log entries written for one failed attempt: the entry is written
\* before the loop tests whether the budget is exhausted.
LogsOnFailure(exhausted) == 1

\* The argument of the time.sleep call between two attempts.
RetrySleepSeconds == request_retry_delay

ExhaustedFailure == [kind |-> "Failure", description |-> "Exceeded max number of retries."]

ErrorLog(url, e) == [level |-> "error", msg |-> "Request to url: " \o url \o " failed: " \o e]

InfoLog(msg) == [level |-> "info", msg |-> msg]

(* ------------------------------ start_sync ----------------------------- *)

\* A start_sync that reads the id with a default instead of subscripting.
StartSyncIdLenient(body) ==
    [ok |-> TRUE, value |-> IF "syncId" \in DOMAIN body THEN body.syncId ELSE "None"]

\* make_request(...)["syncId"]
StartSyncId(body) == Subscript(body, "syncId")

(* ------------------------------ poll_sync ------------------------------ *)

\* A poll_sync that reads the status with a default instead of subscripting.
SyncStatusLenient(body) ==
    [ok |-> TRUE, value |-> IF "status" \in DOMAIN body THEN body.status ELSE "None"]

\* sync_status = resp["status"]
SyncStatus(body) == Subscript(body, "status")

\* A poll loop that raises on every status it does not know.
PollBranchFailFast(sync_status) ==
    IF sync_status = SUCCEEDED THEN "break"
    ELSE IF sync_status = RUNNING THEN "sleep"
    ELSE "raise"

\* A poll loop with its two terminal branches exchanged.
PollBranchSwapped(sync_status) ==
    IF sync_status = FAILED THEN "break"
    ELSE IF sync_status = SUCCEEDED THEN "raise"
    ELSE "sleep"

\* A poll loop that leaves on 'failed' the way it leaves on 'succeeded'.
PollBranchBreakOnTerminal(sync_status) ==
    IF sync_status \in {SUCCEEDED, FAILED} THEN "break" ELSE "sleep"

\* A poll loop with a cap on its iterations: it gives up on the second body
\* that is not 'succeeded'.
PollBranchDeadline(sync_status) ==
    IF sync_status = SUCCEEDED THEN "break"
    ELSE IF polls >= 1 THEN "raise"
    ELSE "sleep"

\* A poll loop that does not recognise the success status.
PollBranchNoBreak(sync_status) ==
    IF sync_status = FAILED THEN "raise" ELSE "sleep"

\* What poll_sync does with a status value: "break", "raise" or "sleep".
PollBranch(sync_status) ==
    IF sync_status = SUCCEEDED THEN "break"
    ELSE IF sync_status = FAILED THEN "raise"
    ELSE "sleep"

\* An error detail that defaults to the empty text instead of None.
ErrorMsgEmptyDefault(body) == IF "error" \in DOMAIN body THEN Some(body.error) ELSE Some("")

\* error_msg = resp.get("error", None)
ErrorMsg(body) == DictGet(body, "error")

SyncFailedDescription(c, s, error_msg) ==
    "Sync for retl connection: " \o c \o ", syncId: " \o s
        \o " failed with error: " \o PyStr(error_msg)

SyncFailure(c, s, body) ==
    [kind |-> "Failure", description |-> SyncFailedDescription(c, s, ErrorMsg(body))]

\* The argument of the time.sleep call that ends a poll iteration.
PollSleepSeconds == sync_poll_interval

Pending == [kind |-> "pending"]

\* The record of a completed make_request call: the attempts it made, the
\* attempts that failed, and the parsed body it returned (None when it raised).
Completed(n, failed, result) == [attempts |-> n, failed |-> failed, result |-> result]

\* A status body that keeps poll_sync looping is accepted MaxPolls times.
WithinPollBound(body) ==
    IF SyncStatus(body).ok /\ PollBranch(SyncStatus(body).value) = "sleep"
    THEN polls < MaxPolls
    ELSE TRUE

Returned == [kind |-> "return"]

(* ------------------- invocations sharing the resource ------------------ *)

\* The threads that call start_and_poll on the one resource instance.
Invocations == {1, 2}

\* The locals of an invocation that has not been made yet.
Idle ==
    [pc |-> "idle", conn_id |-> None, sync_type |-> None, sync_id |-> None,
     mr |-> None, request |-> None, attempts |-> 0, polls |-> 0,
     outcome |-> Pending]

\* A retry counter kept in one place on the resource for all invocations.
RetryCellShared(p) == 1

\* Where the num_retries of invocation p's make_request frame is stored:
\* it is a local of the call, so each invocation has its own.
RetryCell(p) == p

\* The locals of invocation p as its code reads them.
Local(p) ==
    IF inv[p].mr = None
    THEN inv[p]
    ELSE [inv[p] EXCEPT !.mr = Some([@[1] EXCEPT !.num_retries = cells[RetryCell(p)]])]

\* The steps of one invocation as functions of its locals.
InvStartAndPoll(st, c, t) ==
    [st EXCEPT !.conn_id = Some(c),
               !.sync_type = Some(t),
               !.mr = Some(make_request("start_sync", start_endpoint(c), "POST",
                                        Some([syncType |-> t]))),
               !.attempts = 0,
               !.pc = "send"]

InvSendRequest(st) ==
    [st EXCEPT !.request = Some(request_args(st.mr[1])),
               !.attempts = @ + 1,
               !.pc = "await"]

InvRequestFails(st, e) ==
    IF ~Caught(e)
    THEN [st EXCEPT !.request = None, !.outcome = [kind |-> e], !.pc = "done"]
    ELSE IF RetriesExhausted(st.mr[1].num_retries)
    THEN [st EXCEPT !.request = None, !.outcome = ExhaustedFailure, !.pc = "done"]
    ELSE [st EXCEPT !.request = None,
                    !.mr = Some([@[1] EXCEPT !.num_retries = @ + 1]),
                    !.pc = "retry_sleep"]

InvRetryWake(st) == [st EXCEPT !.pc = "send"]

InvStartResponds(st, body) ==
    IF StartSyncId(body).ok
    THEN [st EXCEPT !.request = None,
                    !.sync_id = Some(StartSyncId(body).value),
                    !.mr = Some(make_request("poll_sync",
                               status_endpoint(st.conn_id[1], StartSyncId(body).value),
                               "GET", None)),
                    !.attempts = 0,
                    !.pc = "send"]
    ELSE [st EXCEPT !.request = None, !.outcome = StartSyncId(body).exc, !.pc = "done"]

InvStatusResponds(st, body) ==
    IF ~SyncStatus(body).ok
    THEN [st EXCEPT !.request = None, !.polls = @ + 1,
                    !.outcome = SyncStatus(body).exc, !.pc = "done"]
    ELSE IF PollBranch(SyncStatus(body).value) = "break"
    THEN [st EXCEPT !.request = None, !.polls = @ + 1,
                    !.outcome = Returned, !.pc = "done"]
    ELSE IF PollBranch(SyncStatus(body).value) = "raise"
    THEN [st EXCEPT !.request = None, !.polls = @ + 1,
                    !.outcome = SyncFailure(st.conn_id[1], st.sync_id[1], body),
                    !.pc = "done"]
    ELSE [st EXCEPT !.request = None, !.polls = @ + 1,
                    !.pc = "poll_sleep"]

InvPollWake(st) ==
    [st EXCEPT !.mr = Some(make_request("poll_sync",
                              status_endpoint(st.conn_id[1], st.sync_id[1]),
                              "GET", None)),
               !.attempts = 0,
               !.pc = "send"]

\* Invocation p takes a step that leaves its locals as new: num_retries goes
\* to its cell, the other locals to its frame; the same step is applied to
\* the invocation run by itself.
Commit(p, new, solo) ==
    /\ inv' = [inv EXCEPT ![p] =
                  IF new.mr = None THEN new
                  ELSE [new EXCEPT !.mr = Some([@[1] EXCEPT !.num_retries = 0])]]
    /\ cells' = IF new.mr = None THEN cells
                ELSE [cells EXCEPT ![RetryCell(p)] = new.mr[1].num_retries]
    /\ alone' = [alone EXCEPT ![p] = solo]
    /\ UNCHANGED <<config, single>>

ConcStartAndPoll(p, c, t) ==
    /\ inv[p].pc = "idle"
    /\ Commit(p, InvStartAndPoll(Local(p), c, t), InvStartAndPoll(alone[p], c, t))

ConcSendRequest(p) ==
    /\ inv[p].pc = "send"
    /\ inv[p].attempts < AttemptCap
    /\ Commit(p, InvSendRequest(Local(p)), InvSendRequest(alone[p]))

ConcRequestFails(p, e) ==
    /\ inv[p].pc = "await"
    /\ Commit(p, InvRequestFails(Local(p), e), InvRequestFails(alone[p], e))

ConcRetryWake(p) ==
    /\ inv[p].pc = "retry_sleep"
    /\ Commit(p, InvRetryWake(Local(p)), InvRetryWake(alone[p]))

ConcStartResponds(p, body) ==
    /\ inv[p].pc = "await"
    /\ inv[p].mr[1].caller = "start_sync"
    /\ Commit(p, InvStartResponds(Local(p), body), InvStartResponds(alone[p], body))

ConcStatusResponds(p, body) ==
    /\ inv[p].pc = "await"
    /\ inv[p].mr[1].caller = "poll_sync"
    /\ (SyncStatus(body).ok /\ PollBranch(SyncStatus(body).value) = "sleep")
           => inv[p].polls < MaxPolls
    /\ Commit(p, InvStatusResponds(Local(p), body), InvStatusResponds(alone[p], body))

ConcPollWake(p) ==
    /\ inv[p].pc = "poll_sleep"
    /\ Commit(p, InvPollWake(Local(p)), InvPollWake(alone[p]))

(* ------------------------------- Init ---------------------------------- *)

\* No invocation has been made on the resource yet.
NotStarted ==
    /\ pc = "idle"
    /\ conn_id = None
    /\ sync_type = None
    /\ sync_id = None
    /\ mr = None
    /\ request = None
    /\ sleep_secs = None
    /\ resp = None
    /\ outcome = Pending
    /\ attempts = 0
    /\ error_logs = 0
    /\ last_log = None
    /\ polls = 0
    /\ poll_sleeps = 0
    /\ sent = {}
    /\ calls = [c \in {"start_sync", "poll_sync"} |-> None]
    /\ failed_attempts = 0
    /\ retry_sleeps = 0
    /\ first_request = None
    /\ status_calls = 0
    /\ running_seen = 0
    /\ inv = [p \in Invocations |-> Idle]
    /\ cells = [p \in Invocations |-> 0]
    /\ alone = [p \in Invocations |-> Idle]

\* Construction of the resource with a request_max_retries of 0 or more.
Init ==
    /\ request_max_retries \in 0 .. MaxRetries
    /\ request_retry_delay = DEFAULT_RETRY_DELAY
    /\ request_timeout = DEFAULT_REQUEST_TIMEOUT
    /\ poll_interval \in PollIntervals
    /\ sync_poll_interval \in PollIntervals
    /\ NotStarted

\* Construction that leaves both polling intervals at their defaults.
InitDefaultIntervals ==
    /\ request_max_retries \in 0 .. MaxRetries
    /\ request_retry_delay = DEFAULT_RETRY_DELAY
    /\ request_timeout = DEFAULT_REQUEST_TIMEOUT
    /\ poll_interval = DEFAULT_POLL_INTERVAL_SECONDS
    /\ sync_poll_interval = DEFAULT_POLL_INTERVAL_SECONDS
    /\ NotStarted

\* Construction with any integer the request_max_retries field accepts: the
\* field is a plain int with no validator, so negative values pass.
InitAnyRetries ==
    /\ request_max_retries \in (0 - MaxNegativeRetries) .. MaxRetries
    /\ request_retry_delay = DEFAULT_RETRY_DELAY
    /\ request_timeout = DEFAULT_REQUEST_TIMEOUT
    /\ poll_interval \in PollIntervals
    /\ sync_poll_interval \in PollIntervals
    /\ NotStarted

(* ------------------------------ actions -------------------------------- *)

\* start_and_poll(c, t) is called; it calls start_sync, which enters
\* make_request for the start endpoint.
StartAndPoll(c, t) ==
    /\ UNCHANGED concurrent
    /\ pc = "idle"
    /\ conn_id' = Some(c)
    /\ sync_type' = Some(t)
    /\ mr' = Some(make_request("start_sync", start_endpoint(c), "POST",
                               Some([syncType |-> t])))
    /\ attempts' = 0
    /\ error_logs' = 0
    /\ failed_attempts' = 0
    /\ retry_sleeps' = 0
    /\ first_request' = None
    /\ last_log' = Some(InfoLog("Triggering sync for retl connection id: " \o c))
    /\ pc' = "send"
    /\ UNCHANGED <<config, sync_id, request, sleep_secs, resp, outcome,
                   polls, poll_sleeps, sent, calls, status_calls, running_seen>>

\* One attempt is issued: requests.request(**request_args).
SendRequest ==
    /\ UNCHANGED concurrent
    /\ pc = "send"
    /\ attempts < AttemptCap
    /\ request' = Some(request_args(mr[1]))
    /\ sent' = sent \cup {request_args(mr[1])}
    /\ attempts' = attempts + 1
    /\ first_request' = IF attempts = 0 THEN Some(request_args(mr[1])) ELSE first_request
    /\ pc' = "await"
    /\ UNCHANGED <<config, conn_id, sync_type, sync_id, mr, sleep_secs, resp,
                   outcome, error_logs, last_log, polls, poll_sleeps, calls,
                   failed_attempts, retry_sleeps, status_calls, running_seen>>

\* The attempt raises a RequestException: it is logged, and the call either
\* gives up with the Failure or counts a retry and sleeps.
RequestFails(e) ==
    /\ UNCHANGED concurrent
    /\ pc = "await"
    /\ request' = None
    /\ failed_attempts' = failed_attempts + 1
    /\ IF Caught(e)
       THEN /\ error_logs' = error_logs + LogsOnFailure(RetriesExhausted(mr[1].num_retries))
            /\ last_log' = Some(ErrorLog(mr[1].url, e))
            /\ IF RetriesExhausted(mr[1].num_retries)
               THEN /\ outcome' = ExhaustedFailure
                    /\ calls' = [calls EXCEPT ![mr[1].caller] =
                                     Some(Completed(attempts, failed_attempts + 1, None))]
                    /\ pc' = "done"
                    /\ UNCHANGED <<mr, sleep_secs, retry_sleeps>>
               ELSE /\ mr' = Some([mr[1] EXCEPT !.num_retries = @ + 1])
                    /\ sleep_secs' = Some(RetrySleepSeconds)
                    /\ retry_sleeps' = retry_sleeps + 1
                    /\ pc' = "retry_sleep"
                    /\ UNCHANGED <<outcome, calls>>
       ELSE /\ outcome' = [kind |-> e]
            /\ calls' = [calls EXCEPT ![mr[1].caller] =
                             Some(Completed(attempts, failed_attempts + 1, None))]
            /\ pc' = "done"
            /\ UNCHANGED <<error_logs, last_log, mr, sleep_secs, retry_sleeps>>
    /\ UNCHANGED <<config, conn_id, sync_type, sync_id, resp, attempts,
                   polls, poll_sleeps, sent, first_request, status_calls,
                   running_seen>>

\* time.sleep(request_retry_delay) returns; the loop makes the next attempt.
RetryWake ==
    /\ UNCHANGED concurrent
    /\ pc = "retry_sleep"
    /\ sleep_secs' = None
    /\ pc' = "send"
    /\ UNCHANGED <<config, conn_id, sync_type, sync_id, mr, request, resp,
                   outcome, attempts, error_logs, last_log, polls,
                   poll_sleeps, sent, calls, failed_attempts, retry_sleeps,
                   first_request, status_calls, running_seen>>

\* The start request succeeds with a parsed body: start_sync reads
\* body["syncId"], and start_and_poll passes it to poll_sync, which enters
\* make_request for the status endpoint.
StartResponds(body) ==
    /\ UNCHANGED concurrent
    /\ pc = "await"
    /\ mr[1].caller = "start_sync"
    /\ request' = None
    /\ calls' = [calls EXCEPT !["start_sync"] =
                     Some(Completed(attempts, failed_attempts, Some(body)))]
    /\ IF StartSyncId(body).ok
       THEN /\ sync_id' = Some(StartSyncId(body).value)
            /\ mr' = Some(make_request("poll_sync",
                              status_endpoint(conn_id[1], StartSyncId(body).value),
                              "GET", None))
            /\ attempts' = 0
            /\ error_logs' = 0
            /\ failed_attempts' = 0
            /\ retry_sleeps' = 0
            /\ first_request' = None
            /\ status_calls' = status_calls + 1
            /\ pc' = "send"
            /\ UNCHANGED outcome
       ELSE /\ outcome' = StartSyncId(body).exc
            /\ pc' = "done"
            /\ UNCHANGED <<sync_id, mr, attempts, error_logs, failed_attempts,
                           retry_sleeps, first_request, status_calls>>
    /\ UNCHANGED <<config, conn_id, sync_type, sleep_secs, resp, last_log,
                   polls, poll_sleeps, sent, running_seen>>

\* A status request succeeds with a parsed body: poll_sync reads
\* body["status"] and breaks, raises or sleeps.
StatusResponds(body) ==
    /\ UNCHANGED concurrent
    /\ pc = "await"
    /\ mr[1].caller = "poll_sync"
    /\ WithinPollBound(body)
    /\ request' = None
    /\ calls' = [calls EXCEPT !["poll_sync"] =
                     Some(Completed(attempts, failed_attempts, Some(body)))]
    /\ resp' = Some(body)
    /\ polls' = polls + 1
    /\ running_seen' = IF SyncStatus(body).ok /\ SyncStatus(body).value = RUNNING
                       THEN running_seen + 1 ELSE running_seen
    /\ IF ~SyncStatus(body).ok
       THEN /\ outcome' = SyncStatus(body).exc
            /\ pc' = "done"
            /\ UNCHANGED <<sleep_secs, poll_sleeps, last_log>>
       ELSE /\ CASE PollBranch(SyncStatus(body).value) = "break" ->
                     /\ outcome' = Returned
                     /\ pc' = "done"
                     /\ last_log' = Some(InfoLog("Sync finished for retl connection: "
                            \o conn_id[1] \o ", syncId: " \o sync_id[1]))
                     /\ UNCHANGED <<sleep_secs, poll_sleeps>>
                 [] PollBranch(SyncStatus(body).value) = "raise" ->
                     /\ outcome' = SyncFailure(conn_id[1], sync_id[1], body)
                     /\ pc' = "done"
                     /\ last_log' = Some(InfoLog("Polled status for syncId: "
                            \o sync_id[1] \o " for retl connection: " \o conn_id[1]
                            \o ", status: " \o SyncStatus(body).value))
                     /\ UNCHANGED <<sleep_secs, poll_sleeps>>
                 [] OTHER ->
                     /\ sleep_secs' = Some(PollSleepSeconds)
                     /\ poll_sleeps' = poll_sleeps + 1
                     /\ pc' = "poll_sleep"
                     /\ last_log' = Some(InfoLog("Polled status for syncId: "
                            \o sync_id[1] \o " for retl connection: " \o conn_id[1]
                            \o ", status: " \o SyncStatus(body).value))
                     /\ UNCHANGED outcome
    /\ UNCHANGED <<config, conn_id, sync_type, sync_id, mr, attempts,
                   error_logs, sent, failed_attempts, retry_sleeps,
                   first_request, status_calls>>

\* time.sleep(sync_poll_interval) returns; the loop of poll_sync calls
\* make_request again, with a fresh num_retries.
PollWake ==
    /\ UNCHANGED concurrent
    /\ pc = "poll_sleep"
    /\ sleep_secs' = None
    /\ mr' = Some(make_request("poll_sync",
                      status_endpoint(conn_id[1], sync_id[1]), "GET", None))
    /\ attempts' = 0
    /\ error_logs' = 0
    /\ failed_attempts' = 0
    /\ retry_sleeps' = 0
    /\ first_request' = None
    /\ status_calls' = status_calls + 1
    /\ pc' = "send"
    /\ calls' = [calls EXCEPT !["poll_sync"] = None]
    /\ UNCHANGED <<config, conn_id, sync_type, sync_id, request, resp, outcome,
                   last_log, polls, poll_sleeps, sent, running_seen>>

Next ==
    \/ \E c \in ConnIds, t \in SyncTypes : StartAndPoll(c, t)
    \/ SendRequest
    \/ \E e \in RequestExceptions : RequestFails(e)
    \/ RetryWake
    \/ \E body \in StartBodies : StartResponds(body)
    \/ \E body \in StatusBodies : StatusResponds(body)
    \/ PollWake

Spec == Init /\ [][Next]_vars

\* Every attempt and every sleep completes: a step that can be taken is
\* eventually taken.
SpecFair == InitDefaultIntervals /\ [][Next]_vars /\ WF_vars(Next)

\* The resource built with any accepted request_max_retries.
SpecAnyRetries == InitAnyRetries /\ [][Next]_vars

(* ------------- a remote whose sync never leaves 'running' --------------- *)

\* Start bodies that carry a sync id.
StartedBodies == {b \in StartBodies : "syncId" \in DOMAIN b}

\* A start attempt raises: start_sync may use up its retries and fail.
StartRequestFails(e) ==
    /\ mr # None
    /\ mr[1].caller = "start_sync"
    /\ RequestFails(e)

\* A status attempt raises while the call has retries left, so that the
\* status request as a whole still succeeds.
StatusAttemptFails(e) ==
    /\ mr # None
    /\ mr[1].caller = "poll_sync"
    /\ ~RetriesExhausted(mr[1].num_retries)
    /\ RequestFails(e)

\* Every status request succeeds and says 'running'.
RunningResponds == StatusResponds([status |-> RUNNING])

NextOnlyRunning ==
    \/ \E c \in ConnIds, t \in SyncTypes : StartAndPoll(c, t)
    \/ SendRequest
    \/ \E e \in RequestExceptions : StartRequestFails(e)
    \/ \E e \in RequestExceptions : StatusAttemptFails(e)
    \/ RetryWake
    \/ \E body \in StartedBodies : StartResponds(body)
    \/ RunningResponds
    \/ PollWake

SpecOnlyRunning == Init /\ [][NextOnlyRunning]_vars

(* ----------------- two invocations on the same resource ---------------- *)

\* The first invocation syncs conn-1; the second syncs the same connection
\* or another one.
ConnectionsOf(p) == IF p = 1 THEN {"conn-1"} ELSE ConnIds

NextConcurrent ==
    \/ \E p \in Invocations : \E c \in ConnectionsOf(p) : ConcStartAndPoll(p, c, INCREMENTAL)
    \/ \E p \in Invocations : ConcSendRequest(p)
    \/ \E p \in Invocations, e \in RequestExceptions : ConcRequestFails(p, e)
    \/ \E p \in Invocations : ConcRetryWake(p)
    \/ \E p \in Invocations, body \in StartBodies : ConcStartResponds(p, body)
    \/ \E p \in Invocations, body \in StatusBodies : ConcStatusResponds(p, body)
    \/ \E p \in Invocations : ConcPollWake(p)

SpecConcurrent == InitDefaultIntervals /\ [][NextConcurrent]_vars

(* ------------------------------ properties ----------------------------- *)

StatusOf(r) == IF r # None /\ "status" \in DOMAIN r[1] THEN Some(r[1].status) ELSE None

StartUrl == "https://api.rudderstack.com/v2/retl-connections/" \o conn_id[1] \o "/start"

StatusUrl ==
    "https://api.rudderstack.com/v2/retl-connections/" \o conn_id[1]
        \o "/syncs/" \o sync_id[1]

RetryExhaustedFailure == [kind |-> "Failure", description |-> "Exceeded max number of retries."]

\* C1: with request_max_retries = N >= 0, no make_request call makes more
\* than N+1 attempts; a call that raised made exactly N+1 attempts, all of
\* them failed, and ended the invocation with the retry-exhausted Failure; a
\* call that returned made K+1 attempts after K <= N failed ones, and its
\* caller holds the parsed body of the successful attempt.
C1_RetryBudget ==
    /\ attempts <= request_max_retries + 1
    /\ \A c \in DOMAIN calls :
          calls[c] # None =>
            IF calls[c][1].result = None
            THEN /\ calls[c][1].attempts = request_max_retries + 1
                 /\ calls[c][1].failed = request_max_retries + 1
                 /\ outcome = RetryExhaustedFailure
                 /\ pc = "done"
            ELSE /\ calls[c][1].attempts = calls[c][1].failed + 1
                 /\ calls[c][1].failed <= request_max_retries
    /\ (calls["poll_sync"] # None /\ calls["poll_sync"][1].result # None)
          => resp = calls["poll_sync"][1].result
    /\ (sync_id # None)
          => /\ calls["start_sync"] # None
             /\ calls["start_sync"][1].result # None
             /\ "syncId" \in DOMAIN calls["start_sync"][1].result[1]
             /\ sync_id[1] = calls["start_sync"][1].result[1].syncId

\* The start request succeeded on its last permitted attempt and a later
\* status request used up the whole budget.
C1_Witness ==
    /\ request_max_retries >= 1
    /\ calls["start_sync"] # None
    /\ calls["start_sync"][1].result # None
    /\ calls["start_sync"][1].failed = request_max_retries
    /\ calls["poll_sync"] # None
    /\ calls["poll_sync"][1].result = None
    /\ calls["poll_sync"][1].attempts = request_max_retries + 1

\* C2: whenever the last status body poll_sync received says 'succeeded',
\* the invocation has returned normally: no request is in flight, no wait is
\* in progress, and every wait made belongs to an earlier status body.
C2_StopsOnSucceeded ==
    StatusOf(resp) = Some("succeeded") =>
        /\ pc = "done"
        /\ outcome = [kind |-> "return"]
        /\ request = None
        /\ sleep_secs = None
        /\ poll_sleeps = polls - 1

\* poll_sync returned after two looping status bodies and a 'succeeded' one.
C2_Witness ==
    /\ StatusOf(resp) = Some("succeeded")
    /\ polls = 3
    /\ pc = "done"

\* C3: whenever the last status body poll_sync received says 'failed', the
\* invocation has ended with a Failure whose description names the
\* connection id, the sync id and the body's 'error' value (the text None
\* when the body has no 'error'), and no request or wait follows that body.
C3_FailsOnFailed ==
    StatusOf(resp) = Some("failed") =>
        /\ pc = "done"
        /\ request = None
        /\ sleep_secs = None
        /\ poll_sleeps = polls - 1
        /\ outcome.kind = "Failure"
        /\ outcome.description =
              "Sync for retl connection: " \o conn_id[1] \o ", syncId: " \o sync_id[1]
                \o " failed with error: "
                \o (IF "error" \in DOMAIN resp[1] THEN resp[1].error ELSE "None")

\* poll_sync raised on a 'failed' body that carries no 'error' field.
C3_Witness ==
    /\ StatusOf(resp) = Some("failed")
    /\ "error" \notin DOMAIN resp[1]
    /\ polls = 2
    /\ pc = "done"


UnknownStatus ==
    /\ StatusOf(resp) # None
    /\ StatusOf(resp)[1] \notin {"running", "succeeded", "failed"}

\* C4 as stated: whenever the last status body carries a value other than
\* 'running', 'succeeded' or 'failed', the invocation has ended with a
\* protocol-violation error.
C4_UnknownStatusFailsFast ==
    UnknownStatus => (pc = "done" /\ outcome.kind = "ProtocolViolation")

\* C4 as amended: a status value other than 'succeeded' or 'failed' raises
\* nothing; poll_sync handles it like 'running': it waits sync_poll_interval
\* and sends the status request again, so every status body received so far
\* was followed by a wait and only retry exhaustion can end the invocation.
C4_UnknownStatusKeepsPolling ==
    UnknownStatus =>
        /\ poll_sleeps = polls
        /\ outcome \in {[kind |-> "pending"], RetryExhaustedFailure}
        /\ pc \in {"poll_sleep", "send", "await", "retry_sleep", "done"}
        /\ (pc = "poll_sleep" => sleep_secs = Some(sync_poll_interval))
        /\ (pc = "await" => request[1].method = "GET" /\ request[1].url = StatusUrl)
        /\ (pc = "done" => outcome = RetryExhaustedFailure)

\* A status request is in flight after a 'paused' body.
C4_Witness ==
    /\ StatusOf(resp) = Some("paused")
    /\ pc = "await"
    /\ request # None
    /\ request[1].url = StatusUrl

StartBodyLacksSyncId ==
    /\ calls["start_sync"] # None
    /\ calls["start_sync"][1].result # None
    /\ "syncId" \notin DOMAIN calls["start_sync"][1].result[1]

StatusBodyLacksStatus == resp # None /\ "status" \notin DOMAIN resp[1]

C5_WitnessStart ==
    /\ StartBodyLacksSyncId
    /\ calls["start_sync"][1].failed = 1
    /\ request_max_retries >= 2

StartFailed ==
    /\ calls["start_sync"] # None
    /\ \/ calls["start_sync"][1].result = None
       \/ "syncId" \notin DOMAIN calls["start_sync"][1].result[1]

\* C6: no status request is sent before start_sync has returned a sync id,
\* and when start_sync fails (retries exhausted, or a start answer without
\* 'syncId') the invocation ends with that error: poll_sync made no
\* make_request call and received nothing.
C6_NoPollAfterFailedStart ==
    /\ sync_id = None =>
          /\ \A r \in sent : r.method = "POST" /\ r.url = StartUrl
          /\ calls["poll_sync"] = None
          /\ polls = 0
          /\ resp = None
    /\ StartFailed =>
          /\ sync_id = None
          /\ pc = "done"
          /\ outcome \in {RetryExhaustedFailure, [kind |-> "KeyError", key |-> "syncId"]}

\* start_sync used up its retry budget.
C6_Witness ==
    /\ calls["start_sync"] # None
    /\ calls["start_sync"][1].result = None
    /\ request_max_retries >= 1
    /\ pc = "done"

\* C7: every status request sent has the URL built from the connection id
\* of the invocation and the sync id of the successful start answer; at most
\* one distinct status request exists; and once that answer has been received
\* the only request in flight is that status request.
C7_SameSyncTarget ==
    /\ \A r \in sent : r.method = "GET" => (sync_id # None /\ r.url = StatusUrl)
    /\ \A r \in sent : r.method = "POST" => r.url = StartUrl
    /\ Cardinality(sent) <= 2
    /\ sync_id # None =>
          /\ sync_id[1] = calls["start_sync"][1].result[1].syncId
          /\ mr[1].caller = "poll_sync"
          /\ mr[1].url = StatusUrl
          /\ request # None => (request[1].method = "GET" /\ request[1].url = StatusUrl)

\* A retry of the third status request is in flight.
C7_Witness ==
    /\ sync_id # None
    /\ polls = 2
    /\ pc = "await"
    /\ mr[1].num_retries >= 1

PollRequestExhausted ==
    /\ calls["poll_sync"] # None
    /\ calls["poll_sync"][1].result = None

\* C8: when a status request of poll_sync ends with every attempt failed,
\* it made request_max_retries + 1 attempts (4 for the default of 3), the
\* invocation ended with the retry-exhausted Failure, the last status body
\* (if any) is neither 'succeeded' nor 'failed', and every status body
\* received was followed by its wait and by no other poll iteration.
C8_PollRetryExhausted ==
    PollRequestExhausted =>
        /\ calls["poll_sync"][1].attempts = request_max_retries + 1
        /\ attempts = request_max_retries + 1
        /\ (request_max_retries = 3 => attempts = 4)
        /\ outcome = RetryExhaustedFailure
        /\ pc = "done"
        /\ StatusOf(resp) \notin {Some("succeeded"), Some("failed")}
        /\ poll_sleeps = polls
        /\ request = None
        /\ sleep_secs = None

\* With the default budget, the first status request fails four times.
C8_Witness ==
    /\ PollRequestExhausted
    /\ request_max_retries = DEFAULT_REQUEST_MAX_RETRIES
    /\ attempts = 4
    /\ polls = 0

\* C9 as stated: the wait that follows a looping status body lasts
\* poll_interval seconds.
C9_WaitIsPollInterval ==
    pc = "poll_sleep" => sleep_secs = Some(poll_interval)

\* The state of the sync as the invocation knows it.
RETLState ==
    IF sync_id = None THEN "NotStarted"
    ELSE IF outcome = [kind |-> "return"] THEN "Succeeded"
    ELSE IF outcome.kind = "Failure" /\ outcome # RetryExhaustedFailure THEN "Failed"
    ELSE "Running"

C11_ReturnsOnlyOnSucceeded ==
    /\ outcome = [kind |-> "return"] =>
          /\ pc = "done"
          /\ sync_id # None
          /\ StatusOf(resp) = Some("succeeded")
    /\ pc = "done" => outcome.kind \in {"return", "Failure", "KeyError"}
    /\ (pc = "done" /\ StatusOf(resp) # Some("succeeded")) =>
          outcome.kind \in {"Failure", "KeyError"}
    /\ pc # "done" => outcome = [kind |-> "pending"]

\* The first status body says 'succeeded' and the invocation returned.
C11_Witness ==
    /\ outcome = [kind |-> "return"]
    /\ polls = 1

\* C12: under every interleaving of two invocations on one resource, what
\* each invocation holds (the request in flight, the attempts and retries of
\* its call, the bodies it read, its outcome) is what the same invocation
\* holds when it takes the same steps with the same responses by itself.
C12_Independent == \A p \in Invocations : Local(p) = alone[p]

\* Both invocations are in the middle of a call at once: one is waiting to
\* retry its start request a second time, the other is awaiting a status
\* response after one retry.
C12_Witness ==
    /\ inv[1].pc = "retry_sleep"
    /\ inv[1].sync_id = None
    /\ cells[RetryCell(1)] = 2
    /\ inv[2].pc = "await"
    /\ inv[2].sync_id # None
    /\ cells[RetryCell(2)] = 1
    /\ alone[2].attempts = 2

\* C13: against a remote whose status requests all succeed with 'running',
\* poll_sync has neither returned nor failed however many bodies it has
\* received; it has waited after each of them, and (short of the number of
\* bodies the model supplies) it always has a next step to take.
C13_NoDeadline ==
    sync_id # None =>
        /\ pc \in {"send", "await", "retry_sleep", "poll_sleep"}
        /\ outcome = [kind |-> "pending"]
        /\ running_seen = polls
        /\ poll_sleeps = polls
        /\ status_calls \in {polls, polls + 1}
        /\ polls < MaxPolls => ENABLED NextOnlyRunning

\* poll_sync is waiting after its second 'running' body, one of whose
\* requests needed a retry.
C13_Witness ==
    /\ pc = "poll_sleep"
    /\ polls = 2
    /\ running_seen = 2
    /\ failed_attempts >= 1
    /\ outcome = [kind |-> "pending"]

\* C14: within one make_request call the retry-delay waits started are one
\* fewer than the attempts made, except while a wait is in progress or has
\* just ended, when they are as many: so no wait precedes the first attempt,
\* none follows a successful attempt or the attempt that exhausts the budget,
\* and one wait of request_retry_delay lies between two consecutive
\* attempts; every attempt carries the request arguments of the first one.
C14_RetryDelayBetweenAttempts ==
    /\ pc = "idle" => (retry_sleeps = 0 /\ sleep_secs = None)
    /\ pc = "send" => (retry_sleeps = attempts /\ sleep_secs = None)
    /\ pc = "retry_sleep" =>
          /\ retry_sleeps = attempts
          /\ sleep_secs = Some(request_retry_delay)
    /\ pc \in {"await", "poll_sleep", "done"} => retry_sleeps = attempts - 1
    /\ pc = "done" => sleep_secs = None
    /\ request # None => request = first_request
    /\ (attempts > 0 /\ pc \in {"send", "await", "retry_sleep"}) =>
          /\ first_request[1].method = mr[1].method
          /\ first_request[1].url = mr[1].url
          /\ first_request[1].headers = mr[1].headers
          /\ first_request[1].timeout = request_timeout
          /\ (mr[1].data # None => first_request[1].json = mr[1].data[1])

\* The third attempt of a call is in flight, after two waits.
C14_Witness ==
    /\ pc = "await"
    /\ attempts = 3
    /\ retry_sleeps = 2
    /\ request = first_request

\* C15: the error log entries a make_request call has written are as many
\* as its attempts that failed, the last one of an exhausted budget included;
\* a successful attempt writes none.
C15_OneErrorLogPerFailure ==
    /\ error_logs = failed_attempts
    /\ pc = "await" => attempts = failed_attempts + 1
    /\ outcome = RetryExhaustedFailure =>
          /\ error_logs = attempts
          /\ last_log # None
          /\ last_log[1].level = "error"
    /\ (pc \in {"poll_sleep", "done"} /\ outcome # RetryExhaustedFailure) =>
          error_logs = attempts - 1

\* A call ended with its budget exhausted after at least two failed attempts.
C15_Witness ==
    /\ outcome = RetryExhaustedFailure
    /\ request_max_retries >= 1
    /\ error_logs = request_max_retries + 1

\* C16: every step in which an attempt fails, whatever it raised, takes the
\* retry path: with budget left the call counts one retry and waits, with
\* none left it ends with the retry-exhausted Failure; the failure is logged
\* as one of the three kinds.
C16_AllFailuresRetry ==
    [][ (pc = "await" /\ failed_attempts' = failed_attempts + 1) =>
          /\ \E e \in {"ConnectionError", "Timeout", "HTTPError"} :
                last_log' = Some([level |-> "error",
                                  msg |-> "Request to url: " \o mr[1].url
                                            \o " failed: " \o e])
          /\ IF mr[1].num_retries < request_max_retries
             THEN /\ pc' = "retry_sleep"
                  /\ outcome' = [kind |-> "pending"]
                  /\ mr'[1].num_retries = mr[1].num_retries + 1
             ELSE /\ pc' = "done"
                  /\ outcome' = RetryExhaustedFailure
      ]_vars

\* A 4xx/5xx answer is being retried as the second failure of its call.
C16_Witness ==
    /\ pc = "retry_sleep"
    /\ failed_attempts = 2
    /\ last_log = Some([level |-> "error",
                        msg |-> "Request to url: " \o mr[1].url \o " failed: HTTPError"])

\* C17: the retry counter of the call in progress counts the failed attempts
\* of that call alone, and a call starts with the counter at 0, no request in
\* flight and no wait in progress, whatever earlier calls went through.
C17_BudgetPerCall ==
    /\ (mr # None /\ outcome # RetryExhaustedFailure) =>
          mr[1].num_retries = failed_attempts
    /\ outcome = RetryExhaustedFailure =>
          /\ mr[1].num_retries = failed_attempts - 1
          /\ failed_attempts = request_max_retries + 1
    /\ (pc = "send" /\ attempts = 0) =>
          /\ mr[1].num_retries = 0
          /\ request = None
          /\ sleep_secs = None
          /\ mr[1].headers = request_headers
          /\ mr[1].url = IF sync_id = None THEN StartUrl ELSE StatusUrl

\* The start request used its whole budget of retries and succeeded, the
\* first status request returned, and the second status request still made
\* request_max_retries + 1 attempts.
C17_Witness ==
    /\ request_max_retries >= 1
    /\ calls["start_sync"] # None
    /\ calls["start_sync"][1].failed = request_max_retries
    /\ status_calls = 2
    /\ PollRequestExhausted
    /\ attempts = request_max_retries + 1

\* Status bodies received so far whose status is neither 'succeeded' nor
\* 'failed': every body but a last one that is terminal or has no status.
LoopingBodies ==
    IF resp # None /\ StatusOf(resp) \in {Some("succeeded"), Some("failed"), None}
    THEN polls - 1
    ELSE polls

\* C18 as stated: the poll-interval waits started are as many as the status
\* bodies received whose status is 'running'.
C18_WaitsEqualRunningBodies == poll_sleeps = running_seen

\* C18 as amended: the poll-interval waits started are as many as the status
\* bodies received whose status is neither 'succeeded' nor 'failed'
\* ('running' or an unknown value); poll_sync has made one make_request call
\* more than it has started waits, except while a wait is in progress, so no
\* wait precedes the first status request and each wait is followed by one
\* call; no wait follows a terminal body or a status request that failed.
C18_WaitsEqualLoopingBodies ==
    /\ poll_sleeps = LoopingBodies
    /\ running_seen <= poll_sleeps
    /\ sync_id = None => (status_calls = 0 /\ poll_sleeps = 0)
    /\ (sync_id # None /\ pc # "poll_sleep") => status_calls = poll_sleeps + 1
    /\ pc = "poll_sleep" =>
          /\ status_calls = poll_sleeps
          /\ StatusOf(resp) \notin {Some("succeeded"), Some("failed"), None}
    /\ PollRequestExhausted => (poll_sleeps = polls /\ pc = "done")

\* A status request is in flight after one 'running' and one 'paused' body.
C18_Witness ==
    /\ running_seen = 1
    /\ poll_sleeps = 2
    /\ pc = "await"

\* C19: with a request_max_retries of 0 or more, an invocation of
\* start_and_poll that has begun eventually ends (returns or raises), when
\* the remote lets poll_sync loop only finitely often (MaxPolls bodies here)
\* and every attempt and sleep completes, whatever attempts fail.
C19_Terminates == (pc # "idle") ~> (pc = "done")

\* An invocation ended after a retried request and MaxPolls waits.
C19_Witness ==
    /\ pc = "done"
    /\ poll_sleeps = 2
    /\ failed_attempts >= 1
    /\ outcome = [kind |-> "return"]

\* C20: a make_request call that has had a failed attempt and has not ended
\* holds a retry counter no greater than request_max_retries; the counter
\* only grows and the loop ends on a failure only when the two are equal, so
\* this is what the call needs to end with the retry-exhausted Failure.
C20_ExhaustionReachable ==
    (mr # None /\ failed_attempts >= 1 /\ pc \in {"send", "await", "retry_sleep"}) =>
        mr[1].num_retries <= request_max_retries

====
